---- MODULE Spec2Model ----
(***************************************************************************)
(* A model of Introspector/Parser/parse.py: the Parser facade (source      *)
(* setter and the queries variables, variable_indices, documentation,      *)
(* navigation, nestable_lines) and the node visitors behind them           *)
(* (_AssignParser, _NameParser, _DefinitionParser, _get_path).             *)
(*                                                                         *)
(* Text is a sequence of one-character strings.  A tree is the sequence of *)
(* its nodes in pre-order (document order); node 1 is the ast.Module and   *)
(* every other node names its parent, so the children of a node, in index  *)
(* order, are what ast.iter_child_nodes yields.  The expr_context children *)
(* of ast.Name (Load/Store/Param) carry no lineno and no visitor handles   *)
(* them; they are kept as the ctx field of the Name node.                  *)
(***************************************************************************)
EXTENDS Integers, Sequences, FiniteSets, TLC

VARIABLES _source, _tree, call

vars == <<_source, _tree, call>>

\* ------------------------------------------------------------------ text

NL == "\n"

Lower == {"a","b","c","d","e","f","g","h","i","j","k","l","m",
          "n","o","p","q","r","s","t","u","v","w","x","y","z"}

Upper == {"A","B","C","D","E","F","G","H","I","J","K","L","M",
          "N","O","P","Q","R","S","T","U","V","W","X","Y","Z"}

Digits == {"0","1","2","3","4","5","6","7","8","9"}

\* string.letters + string.digits + '_'
IdChars == Lower \cup Upper \cup Digits \cup {"_"}

SetMin(S) == CHOOSE x \in S : \A y \in S : x <= y

SetMax(S) == CHOOSE x \in S : \A y \in S : y <= x

\* The elements of a set of numbers in increasing order.
Ascending(S) ==
    SubSeq([e \in 1..Cardinality(S) |->
               CHOOSE x \in S : Cardinality({y \in S : y <= x}) = e],
           1, Cardinality(S))

\* unicode.splitlines(True): the lines with their line break kept.
splitlines_keepends(s) ==
    LET ends == Ascending({i \in 1..Len(s) :
                              s[i] = NL \/ i = Len(s)})
    IN  [j \in 1..Len(ends) |->
            SubSeq(s, IF j = 1 THEN 1 ELSE ends[j - 1] + 1, ends[j])]

\* unicode.splitlines(): the lines without their line break.
splitlines(s) ==
    LET keep == splitlines_keepends(s)
    IN  [i \in 1..Len(keep) |->
            IF keep[i][Len(keep[i])] = NL
            THEN SubSeq(keep[i], 1, Len(keep[i]) - 1)
            ELSE keep[i]]

\* unicode.isspace() / == "" on a line: empty or only blanks.
IsBlankLine(line) == \A i \in 1..Len(line) : line[i] = " "

\* line.strip(): without leading and trailing blanks.
strip(line) ==
    LET ink == {i \in 1..Len(line) : line[i] # " "}
    IN  IF ink = {} THEN <<>> ELSE SubSeq(line, SetMin(ink), SetMax(ink))

startswith(s, prefix) ==
    Len(s) >= Len(prefix) /\ SubSeq(s, 1, Len(prefix)) = prefix

\* --------------------------------------------------- ast.parse (python 2)

kwDef == <<"d","e","f">>
kwClass == <<"c","l","a","s","s">>
kwIf == <<"i","f">>
kwPrint == <<"p","r","i","n","t">>
kwWhile == <<"w","h","i","l","e">>
kwFor == <<"f","o","r">>
kwIn == <<"i","n">>
kwImport == <<"i","m","p","o","r","t">>
kwFrom == <<"f","r","o","m">>

\* keyword.kwlist, the part of it the modelled grammar uses.
kwlist ==
    {kwDef, kwClass, kwIf, kwPrint, kwWhile, kwFor, kwIn, kwImport, kwFrom}

IsIdent(s) ==
    /\ s # <<>>
    /\ \A i \in 1..Len(s) : s[i] \in IdChars
    /\ s[1] \notin Digits
    /\ s \notin kwlist

IsNumber(s) == s # <<>> /\ \A i \in 1..Len(s) : s[i] \in Digits

\* A node without a lineno attribute (Module, arguments) has lineno NoLine.
NoLine == 0

Node(kind, lineno, col, name, parent, ctx) ==
    [kind |-> kind, lineno |-> lineno, col_offset |-> col, name |-> name,
     parent |-> parent, ctx |-> ctx, children |-> <<>>]

ModuleNode == Node("Module", NoLine, 0, <<>>, 0, "")

NoStmt == [ok |-> FALSE, nodes |-> <<>>, compound |-> FALSE]

\* The positions at which `word` stands in the text.
Find(text, word) ==
    {i \in 1..Len(text) :
        i + Len(word) - 1 <= Len(text)
        /\ SubSeq(text, i, i + Len(word) - 1) = word}

\* The commas of a target list that stand outside every bracket, each
\* followed by a blank.
TopCommas(text) ==
    {i \in Find(text, <<",", " ">>) :
        Cardinality({j \in 1..i : text[j] \in {"(", "["}})
          = Cardinality({j \in 1..i : text[j] \in {")", "]"}})}

\* The separators and brackets of a target list stand where the grammar
\* allows them: ", " between two elements, brackets around elements.
WellFormedTarget(text) ==
    \A i \in 1..Len(text) :
        /\ text[i] = ","
              => /\ i > 1 /\ text[i - 1] \in IdChars \cup {")", "]"}
                 /\ i + 2 <= Len(text) /\ text[i + 1] = " "
                 /\ text[i + 2] \in IdChars \cup {"(", "["}
        /\ text[i] = " " => (i > 1 /\ text[i - 1] = ",")
        /\ text[i] \in {"(", "["}
              => /\ (i = 1 \/ text[i - 1] \in {"(", "[", " "})
                 /\ i < Len(text) /\ text[i + 1] \in IdChars \cup {"(", "["}
        /\ text[i] \in {")", "]"}
              => /\ i > 1 /\ text[i - 1] \in IdChars \cup {")", "]"}
                 /\ (i = Len(text) \/ text[i + 1] \in {")", "]", ","})

\* The nodes of the word (a name, or an attribute `name.name`) that starts
\* at text[i]; none when it is neither.
WordNodes(text, i, L, c, p, idx) ==
    LET stops == {j \in i..Len(text) : text[j] \notin IdChars \cup {"."}}
        word == SubSeq(text, i,
                       IF stops = {} THEN Len(text) ELSE SetMin(stops) - 1)
        dots == Find(word, <<".">>)
    IN  IF IsIdent(word)
        THEN <<Node("Name", L, c + i - 1, word, p, "Store")>>
        ELSE IF /\ Cardinality(dots) = 1
                /\ IsIdent(SubSeq(word, 1, SetMin(dots) - 1))
                /\ IsIdent(SubSeq(word, SetMin(dots) + 1, Len(word)))
        THEN <<Node("Attribute", L, c + i - 1,
                    SubSeq(word, SetMin(dots) + 1, Len(word)), p, "Store"),
               Node("Name", L, c + i - 1, SubSeq(word, 1, SetMin(dots) - 1),
                    idx, "Load")>>
        ELSE <<>>

AddWord(st, nodes) ==
    [st EXCEPT !.ok = nodes # <<>>, !.nodes = @ \o nodes]

\* One step of the scan of a target, at text[i], text[1] standing in
\* column c and b nodes standing before the target: st.nodes are the nodes
\* so far, st.open the Tuple and List nodes still open, below the parent
\* of the target.  A tuple in parentheses has the column of its first
\* element and at least two elements.
ScanStep(text, i, L, c, b, st) ==
    IF text[i] \in {"(", "["}
    THEN [st EXCEPT
             !.nodes = Append(@, IF text[i] = "("
                                 THEN Node("Tuple", L, c + i, <<>>,
                                           st.open[Len(st.open)], "Store")
                                 ELSE Node("List", L, c + i - 1, <<>>,
                                           st.open[Len(st.open)], "Store")),
             !.open = Append(@, b + Len(st.nodes) + 1)]
    ELSE IF text[i] \in {")", "]"}
    THEN [st EXCEPT
             !.ok = /\ Len(st.open) > st.base
                    /\ st.nodes[st.open[Len(st.open)] - b].kind
                         = (IF text[i] = ")" THEN "Tuple" ELSE "List")
                    /\ (text[i] = ")"
                          => Cardinality(
                                 {j \in 1..Len(st.nodes) :
                                     st.nodes[j].parent
                                       = st.open[Len(st.open)]}) >= 2),
             !.open = SubSeq(@, 1, Len(@) - 1)]
    ELSE IF text[i] \in {",", " "} THEN st
    ELSE IF i > 1 /\ text[i - 1] \in IdChars \cup {"."} THEN st
    ELSE AddWord(st, WordNodes(text, i, L, c, st.open[Len(st.open)],
                               b + Len(st.nodes) + 1))

RECURSIVE ScanTarget(_, _, _, _, _, _)
ScanTarget(text, i, L, c, b, st) ==
    IF ~st.ok \/ i > Len(text) THEN st
    ELSE ScanTarget(text, i + 1, L, c, b, ScanStep(text, i, L, c, b, st))

\* The outcome of a scan: every bracket closed.
Scanned(st) == [ok |-> st.ok /\ Len(st.open) = st.base, nodes |-> st.nodes]

\* An assignment, loop or comprehension target standing in column c, with
\* parent p: a name, an attribute `name.name`, a list `[t, t]`, a tuple
\* `t, t` with or without parentheses.  A tuple without parentheses has
\* the column of its first element.
ParseTarget(text, L, c, p, b) ==
    IF text = <<>> \/ ~WellFormedTarget(text)
    THEN [ok |-> FALSE, nodes |-> <<>>]
    ELSE Scanned(
             ScanTarget(
                 text, 1, L, c, b,
                 IF TopCommas(text) = {}
                 THEN [nodes |-> <<>>, open |-> <<p>>, base |-> 1,
                       ok |-> TRUE]
                 ELSE [nodes |->
                          <<Node("Tuple", L,
                                 c + Cardinality({j \in 1..Len(text) :
                                                     \A e \in 1..j :
                                                         text[e] = "("}),
                                 <<>>, p, "Store")>>,
                       open |-> <<p, b + 1>>, base |-> 2, ok |-> TRUE]))

\* `[elt for target in iter]` standing in column c, " in " at text[ipos].
Comprehension(target, elt, iter, L, c, p, b, ipos) ==
    IF IsIdent(elt) /\ IsIdent(iter) /\ target.ok
    THEN [ok |-> TRUE,
          nodes |-> <<Node("ListComp", L, c, <<>>, p, ""),
                      Node("Name", L, c + 1, elt, b + 1, "Load"),
                      Node("comprehension", NoLine, 0, <<>>, b + 1, "")>>
                      \o target.nodes
                      \o <<Node("Name", L, c + ipos + 3, iter, b + 3, "Load")>>]
    ELSE [ok |-> FALSE, nodes |-> <<>>]

ParseComprehension(text, L, c, p, b, fpos, ipos) ==
    Comprehension(ParseTarget(SubSeq(text, fpos + 5, ipos - 1), L,
                              c + fpos + 4, b + 3, b + 3),
                  SubSeq(text, 2, fpos - 1),
                  SubSeq(text, ipos + 4, Len(text) - 1), L, c, p, b, ipos)

\* The right-hand side of an assignment standing in column c: a name, a
\* number or a list comprehension `[name for target in name]`.
ParseValue(text, L, c, p, b) ==
    IF IsIdent(text)
    THEN [ok |-> TRUE, nodes |-> <<Node("Name", L, c, text, p, "Load")>>]
    ELSE IF IsNumber(text)
    THEN [ok |-> TRUE, nodes |-> <<Node("Num", L, c, <<>>, p, "")>>]
    ELSE IF /\ text # <<>> /\ text[1] = "[" /\ text[Len(text)] = "]"
            /\ Find(text, <<" ">> \o kwFor \o <<" ">>) # {}
            /\ Find(text, <<" ">> \o kwIn \o <<" ">>) # {}
    THEN ParseComprehension(text, L, c, p, b,
                            SetMin(Find(text, <<" ">> \o kwFor \o <<" ">>)),
                            SetMax(Find(text, <<" ">> \o kwIn \o <<" ">>)))
    ELSE [ok |-> FALSE, nodes |-> <<>>]

Assign(target, value, L, c, p) ==
    IF target.ok /\ value.ok
    THEN [ok |-> TRUE, compound |-> FALSE,
          nodes |-> <<Node("Assign", L, c, <<>>, p, "")>>
                      \o target.nodes \o value.nodes]
    ELSE NoStmt

AssignTo(target, rest, L, c, p, b, q) ==
    Assign(target,
           ParseValue(SubSeq(rest, q + 3, Len(rest)), L, c + q + 2, b + 1,
                      b + 1 + Len(target.nodes)),
           L, c, p)

\* `target = value`, split at the first " = ".
ParseAssign(rest, L, c, p, b) ==
    IF Find(rest, <<" ", "=", " ">>) = {} THEN NoStmt
    ELSE AssignTo(ParseTarget(SubSeq(rest, 1,
                                     SetMin(Find(rest, <<" ", "=", " ">>)) - 1),
                              L, c, b + 1, b + 1),
                  rest, L, c, p, b, SetMin(Find(rest, <<" ", "=", " ">>)))

For(target, iter, L, c, p, b, ipos) ==
    IF target.ok /\ IsIdent(iter)
    THEN [ok |-> TRUE, compound |-> TRUE,
          nodes |-> <<Node("For", L, c, <<>>, p, "")>> \o target.nodes
                      \o <<Node("Name", L, c + ipos + 3, iter, b + 1, "Load")>>]
    ELSE NoStmt

\* `for target in name:`, " in " at rest[ipos].
ParseFor(rest, L, c, p, b, ipos) ==
    IF ipos = 0 \/ rest[Len(rest)] # ":" THEN NoStmt
    ELSE For(ParseTarget(SubSeq(rest, 5, ipos - 1), L, c + 4, b + 1, b + 1),
             SubSeq(rest, ipos + 4, Len(rest) - 1), L, c, p, b, ipos)

\* `import name` and `from name import name`; the alias nodes have no
\* lineno.
ParseImport(rest, L, c, p, b) ==
    IF startswith(rest, kwImport \o <<" ">>)
    THEN IF IsIdent(SubSeq(rest, 8, Len(rest)))
         THEN [ok |-> TRUE, compound |-> FALSE,
               nodes |-> <<Node("Import", L, c, <<>>, p, ""),
                           Node("alias", NoLine, 0, SubSeq(rest, 8, Len(rest)),
                                b + 1, "")>>]
         ELSE NoStmt
    ELSE IF Find(rest, <<" ">> \o kwImport \o <<" ">>) = {} THEN NoStmt
    ELSE LET ipos == SetMin(Find(rest, <<" ">> \o kwImport \o <<" ">>))
         IN  IF /\ IsIdent(SubSeq(rest, 6, ipos - 1))
                /\ IsIdent(SubSeq(rest, ipos + 8, Len(rest)))
             THEN [ok |-> TRUE, compound |-> FALSE,
                   nodes |-> <<Node("ImportFrom", L, c,
                                    SubSeq(rest, 6, ipos - 1), p, ""),
                               Node("alias", NoLine, 0,
                                    SubSeq(rest, ipos + 8, Len(rest)), b + 1,
                                    "")>>]
             ELSE NoStmt

\* One simple or compound statement header, `rest` being the line without
\* its indentation; b is the number of nodes already in the tree, p the
\* parent, L the line and c the column of the statement.
ParseStmt(rest, L, c, p, b) ==
    IF startswith(rest, kwDef \o <<" ">>) THEN
        LET t == SubSeq(rest, 5, Len(rest))
            opens == {i \in 1..Len(t) : t[i] = "("}
        IN  IF opens = {} \/ Len(t) < 2 THEN NoStmt
            ELSE LET q == SetMin(opens)
                     name == SubSeq(t, 1, q - 1)
                     arg == SubSeq(t, q + 1, Len(t) - 2)
                 IN  IF /\ IsIdent(name)
                        /\ Len(t) >= q + 2
                        /\ SubSeq(t, Len(t) - 1, Len(t)) = <<")", ":">>
                        /\ (arg = <<>> \/ IsIdent(arg))
                     THEN [ok |-> TRUE, compound |-> TRUE,
                           nodes |->
                             <<Node("FunctionDef", L, c, name, p, ""),
                               Node("arguments", NoLine, 0, <<>>, b + 1, "")>>
                             \o (IF arg = <<>> THEN <<>>
                                 ELSE <<Node("Name", L, c + 4 + Len(name) + 1,
                                             arg, b + 2, "Param")>>)]
                     ELSE NoStmt
    ELSE IF startswith(rest, kwClass \o <<" ">>) THEN
        LET name == SubSeq(rest, 7, Len(rest) - 1)
        IN  IF IsIdent(name) /\ rest[Len(rest)] = ":"
            THEN [ok |-> TRUE, compound |-> TRUE,
                  nodes |-> <<Node("ClassDef", L, c, name, p, "")>>]
            ELSE NoStmt
    ELSE IF startswith(rest, kwIf \o <<" ">>) THEN
        LET name == SubSeq(rest, 4, Len(rest) - 1)
        IN  IF IsIdent(name) /\ rest[Len(rest)] = ":"
            THEN [ok |-> TRUE, compound |-> TRUE,
                  nodes |-> <<Node("If", L, c, <<>>, p, ""),
                              Node("Name", L, c + 3, name, b + 1, "Load")>>]
            ELSE NoStmt
    ELSE IF startswith(rest, kwWhile \o <<" ">>) THEN
        LET name == SubSeq(rest, 7, Len(rest) - 1)
        IN  IF IsIdent(name) /\ rest[Len(rest)] = ":"
            THEN [ok |-> TRUE, compound |-> TRUE,
                  nodes |-> <<Node("While", L, c, <<>>, p, ""),
                              Node("Name", L, c + 6, name, b + 1, "Load")>>]
            ELSE NoStmt
    ELSE IF startswith(rest, kwFor \o <<" ">>) THEN
        ParseFor(rest, L, c, p, b,
                 SetMax({0} \cup Find(rest, <<" ">> \o kwIn \o <<" ">>)))
    ELSE IF \/ startswith(rest, kwImport \o <<" ">>)
            \/ startswith(rest, kwFrom \o <<" ">>) THEN
        ParseImport(rest, L, c, p, b)
    ELSE IF startswith(rest, kwPrint \o <<" ">>) THEN
        LET name == SubSeq(rest, 7, Len(rest))
        IN  IF IsIdent(name)
            THEN [ok |-> TRUE, compound |-> FALSE,
                  nodes |-> <<Node("Print", L, c, <<>>, p, ""),
                              Node("Name", L, c + 6, name, b + 1, "Load")>>]
            ELSE NoStmt
    ELSE IF IsIdent(rest) THEN
        [ok |-> TRUE, compound |-> FALSE,
         nodes |-> <<Node("Expr", L, c, <<>>, p, ""),
                     Node("Name", L, c, rest, b + 1, "Load")>>]
    ELSE ParseAssign(rest, L, c, p, b)

\* The blocks still open: the indentation of each and the node owning it.
RECURSIVE Dedent(_, _)
Dedent(stack, ind) ==
    IF Len(stack) > 1 /\ stack[Len(stack)].ind > ind
    THEN Dedent(SubSeq(stack, 1, Len(stack) - 1), ind)
    ELSE stack

\* The statement joins the tree, below the innermost open block.
AddStmt(st, stack, stmt) ==
    IF ~stmt.ok THEN [st EXCEPT !.err = TRUE]
    ELSE [nodes |-> st.nodes \o stmt.nodes,
          stack |-> stack,
          open |-> IF stmt.compound THEN Len(st.nodes) + 1 ELSE 0,
          err |-> FALSE]

\* A statement must sit at the indentation of an open block, or deeper
\* right after a compound header.
ParseIndented(rest, L, ind, st, stack) ==
    IF (IF st.open # 0 THEN ind <= st.stack[Len(st.stack)].ind
        ELSE stack[Len(stack)].ind # ind)
    THEN [st EXCEPT !.err = TRUE]
    ELSE AddStmt(st, stack,
                 ParseStmt(rest, L, ind, stack[Len(stack)].node,
                           Len(st.nodes)))

\* One physical line: blank and comment lines hold no statement.
ParseLine(line, L, st) ==
    LET ink == {i \in 1..Len(line) : line[i] # " "}
    IN  IF ink = {} \/ line[SetMin(ink)] = "#" THEN st
        ELSE ParseIndented(SubSeq(line, SetMin(ink), Len(line)), L,
                           SetMin(ink) - 1, st,
                           IF st.open # 0
                           THEN Append(st.stack, [ind |-> SetMin(ink) - 1,
                                                  node |-> st.open])
                           ELSE Dedent(st.stack, SetMin(ink) - 1))

RECURSIVE ParseLines(_, _, _)
ParseLines(lines, L, st) ==
    IF st.err \/ L > Len(lines) THEN st
    ELSE ParseLines(lines, L + 1, ParseLine(lines[L], L, st))

\* The tree of the parsed lines, every node with its children in order;
\* SyntaxError for a statement the grammar refuses or a header without a
\* body.
TreeOf(st) ==
    IF st.err \/ st.open # 0
    THEN [exc |-> "SyntaxError", tree |-> <<>>]
    ELSE [exc |-> "none",
          tree |-> [i \in 1..Len(st.nodes) |->
                      [st.nodes[i] EXCEPT !.children =
                          Ascending({j \in 1..Len(st.nodes) :
                                        st.nodes[j].parent = i})]]]

\* ast.parse: the tree of the text, or SyntaxError.
ast_parse(s) ==
    TreeOf(ParseLines(splitlines(s), 1,
                      [nodes |-> <<ModuleNode>>,
                       stack |-> <<[ind |-> 0, node |-> 1]>>,
                       open |-> 0, err |-> FALSE]))

\* ------------------------------------------------------- position index

RECURSIVE SumLen(_, _)
SumLen(lines, k) == IF k <= 0 THEN 0 ELSE Len(lines[k]) + SumLen(lines, k - 1)

\* Parser._calculate_lineno: the first line at whose end the running length
\* has reached the index (the last line when none has), 1 for empty text.
LinenoIn(lines, index) ==
    IF lines = <<>> THEN 1
    ELSE IF \A k \in 1..Len(lines) : SumLen(lines, k) < index THEN Len(lines)
    ELSE SetMin({k \in 1..Len(lines) : SumLen(lines, k) >= index})

_calculate_lineno(source, index) ==
    LinenoIn(splitlines_keepends(source), index)

\* sum(len(line) for line in lines[:lineno-1]) + col_offset
IndexIn(lines, lineno, col_offset) ==
    LET upto == IF lineno - 1 >= Len(lines) THEN Len(lines)
                ELSE IF lineno - 1 >= 0 THEN lineno - 1
                ELSE IF Len(lines) + (lineno - 1) >= 0
                     THEN Len(lines) + (lineno - 1)
                ELSE 0
    IN  SumLen(lines, upto) + col_offset

\* _calculate_index: the lengths of the lines before lineno plus the
\* column.
_calculate_index(source, lineno, col_offset) ==
    IndexIn(splitlines_keepends(source), lineno, col_offset)

\* Parser._word_at_index, for an index within the text (0-based).
_word_at_index(source, index) ==
    LET before == {idx \in 0..index : source[idx + 1] \notin IdChars}
        after == {idx \in index..(Len(source) - 1) :
                     source[idx + 1] \notin IdChars}
        anchor == IF before = {} THEN 0 ELSE SetMax(before) + 1
        bound == IF after = {} THEN Len(source) ELSE SetMin(after)
    IN  SubSeq(source, anchor + 1, bound)

\* ------------------------------------------------------------ the tree

\* ast.iter_child_nodes: the children of node n, in field order.
Children(tree, n) == tree[n].children

StmtKinds ==
    {"FunctionDef", "ClassDef", "Assign", "If", "While", "For", "Import",
     "ImportFrom", "Print", "Expr"}

DefKinds == {"FunctionDef", "ClassDef"}

ScopeKinds == {"Module", "FunctionDef", "ClassDef"}

IsStmt(tree, i) == tree[i].kind \in StmtKinds

\* node.body of a Module, FunctionDef, ClassDef or If: its statements.
Body(tree, n) ==
    Ascending({i \in 1..Len(tree) : tree[i].parent = n /\ IsStmt(tree, i)})

\* node.args.args of a FunctionDef: the parameter Name nodes.
Args(tree, n) ==
    LET a == Children(tree, n)[1] IN Children(tree, a)

\* node.targets of an Assign.
Targets(tree, n) == <<Children(tree, n)[1]>>

\* cur + (child,) along the way from node n down to node i, for cur = (n,).
RECURSIVE path_to(_, _, _)
path_to(tree, n, i) ==
    IF i = n \/ tree[i].parent = 0 THEN <<i>>
    ELSE Append(path_to(tree, n, tree[i].parent), i)

\* Node i is node n or lies below it.
Under(tree, i, n) == path_to(tree, n, i)[1] = n

\* _iter_paths: every root-to-leaf path below n, leftmost subtree first:
\* one path for every node without children, in the order of the nodes.
_iter_paths(tree, n, cur) ==
    LET leaves == Ascending({i \in 1..Len(tree) :
                                Under(tree, i, n) /\ Children(tree, i) = <<>>})
    IN  SubSeq([e \in 1..Len(leaves) |->
                   cur \o Tail(path_to(tree, n, leaves[e]))],
               1, Len(leaves))

\* _get_path: the root followed by the first path holding a node on the
\* line, the empty path when no path does.
PathOn(tree, paths, lineno) ==
    LET good == {k \in 1..Len(paths) :
                    \E j \in 1..Len(paths[k]) :
                        /\ tree[paths[k][j]].lineno # NoLine
                        /\ tree[paths[k][j]].lineno = lineno}
    IN  IF good = {} THEN <<>> ELSE <<1>> \o paths[SetMin(good)]

_get_path(tree, lineno) == PathOn(tree, _iter_paths(tree, 1, <<>>), lineno)

\* ------------------------------------------------------- _AssignParser

\* float('inf'), the cutoff of variable_indices' scope parser.
Inf == 1000000

\* _AssignParser._add_node: append a _VariableNode under the name.
AP_add_node(tree, variables, n, name) ==
    Append(variables, [name |-> name, lineno |-> tree[n].lineno,
                       col_offset |-> tree[n].col_offset])

\* An AttributeError raised while collecting (elt.id, target.elts) ends
\* the call: it is carried in the accumulator as an entry of this name,
\* which every caller looks for before it uses the entries.
AttributeError == <<"AttributeError">>

AP_raise(variables) ==
    Append(variables, [name |-> AttributeError, lineno |-> NoLine,
                       col_offset |-> 0])

Raised(variables) ==
    \E i \in 1..Len(variables) : variables[i].name = AttributeError

\* for elt in node.elts: self._add_node(elt, elt.id), elt.id raising
\* AttributeError for an element that is no Name.
RECURSIVE AP_add_elts(_, _, _, _)
AP_add_elts(tree, variables, elts, i) ==
    IF i > Len(elts) THEN variables
    ELSE IF tree[elts[i]].kind # "Name" THEN AP_raise(variables)
    ELSE AP_add_elts(tree,
                     AP_add_node(tree, variables, elts[i], tree[elts[i]].name),
                     elts, i + 1)

\* _AssignParser._visit_assign_target: a Name target is stored, the
\* elements of a Tuple target are stored, any other target is passed over.
_visit_assign_target(tree, variables, n) ==
    IF tree[n].kind = "Name"
    THEN AP_add_node(tree, variables, n, tree[n].name)
    ELSE IF tree[n].kind = "Tuple"
    THEN AP_add_elts(tree, variables, tree[n].children, 1)
    ELSE variables

\* _AssignParser._visit_comprehension: the target of the generator (the
\* modelled comprehension has one) is stored when it is a Name, its elts
\* are stored when it has elts; target.elts raises AttributeError
\* otherwise.
_visit_comprehension(tree, variables, n) ==
    LET target == tree[tree[n].children[2]].children[1]
    IN  IF tree[target].kind = "Name"
        THEN AP_add_node(tree, variables, target, tree[target].name)
        ELSE IF tree[target].kind \in {"Tuple", "List"}
        THEN AP_add_elts(tree, variables, tree[target].children, 1)
        ELSE AP_raise(variables)

\* _AssignParser._visit_import: the name of the alias (the modelled import
\* has one, without asname) is stored at the position of the statement.
_visit_import(tree, variables, n) ==
    AP_add_node(tree, variables, n, tree[tree[n].children[1]].name)

RECURSIVE AP_visit(_, _, _, _)
RECURSIVE AP_each(_, _, _, _, _, _)

\* The loops of generic_visit ("generic": visit every child), visit_Module
\* ("module": a definition gives its name, whatever its line) and
\* _visit_def ("def": a definition up to the cutoff gives its name).
AP_each(tree, nodes, i, lineno, variables, loop) ==
    IF i > Len(nodes) \/ Raised(variables) THEN variables
    ELSE LET sub == nodes[i]
             isDef == tree[sub].kind \in DefKinds
             nameOnly == \/ loop = "module" /\ isDef
                         \/ loop = "def" /\ isDef /\ tree[sub].lineno <= lineno
             step == IF nameOnly
                     THEN AP_add_node(tree, variables, sub, tree[sub].name)
                     ELSE AP_visit(tree, sub, lineno, variables)
         IN  AP_each(tree, nodes, i + 1, lineno, step, loop)

AP_generic_visit(tree, n, lineno, variables) ==
    AP_each(tree, Children(tree, n), 1, lineno, variables, "generic")

visit_Module(tree, n, lineno, variables) ==
    AP_each(tree, Body(tree, n), 1, lineno, variables, "module")

\* for target in node.targets: self._visit_assign_target(target)
RECURSIVE AP_targets(_, _, _, _)
AP_targets(tree, variables, targets, i) ==
    IF i > Len(targets) THEN variables
    ELSE AP_targets(tree, _visit_assign_target(tree, variables, targets[i]),
                    targets, i + 1)

visit_Assign(tree, n, lineno, variables) ==
    AP_generic_visit(tree, n, lineno,
                     AP_targets(tree, variables, Targets(tree, n), 1))

AP_visit_def(tree, n, lineno, variables) ==
    AP_add_node(tree,
                AP_each(tree, Body(tree, n), 1, lineno, variables, "def"),
                n, tree[n].name)

\* visit_FunctionDef without its loop over node.args.args.
AP_visit_FunctionDef_without_args(tree, n, lineno, variables) ==
    AP_visit_def(tree, n, lineno, variables)

\* for arg in node.args.args: self._add_node(arg, arg.id)
RECURSIVE AP_args(_, _, _, _)
AP_args(tree, variables, args, i) ==
    IF i > Len(args) THEN variables
    ELSE AP_args(tree,
                 AP_add_node(tree, variables, args[i], tree[args[i]].name),
                 args, i + 1)

AP_visit_FunctionDef(tree, n, lineno, variables) ==
    IF tree[n].lineno < lineno
    THEN AP_args(tree, AP_visit_def(tree, n, lineno, variables),
                 Args(tree, n), 1)
    ELSE AP_visit_def(tree, n, lineno, variables)

\* _AssignParser.visit: a node beyond the cutoff line is skipped, a node
\* without a line is always visited.
AP_visit(tree, n, lineno, variables) ==
    IF tree[n].lineno # NoLine /\ tree[n].lineno > lineno THEN variables
    ELSE CASE tree[n].kind = "Module" ->
                  visit_Module(tree, n, lineno, variables)
           [] tree[n].kind = "Assign" ->
                  visit_Assign(tree, n, lineno, variables)
           [] tree[n].kind = "FunctionDef" ->
                  AP_visit_FunctionDef(tree, n, lineno, variables)
           [] tree[n].kind = "ClassDef" ->
                  AP_visit_def(tree, n, lineno, variables)
           [] tree[n].kind = "For" ->
                  AP_generic_visit(
                      tree, n, lineno,
                      _visit_assign_target(tree, variables,
                                           tree[n].children[1]))
           [] tree[n].kind = "ListComp" ->
                  _visit_comprehension(tree, variables, n)
           [] tree[n].kind \in {"Import", "ImportFrom"} ->
                  _visit_import(tree, variables, n)
           [] OTHER -> AP_generic_visit(tree, n, lineno, variables)

Names(variables) == {variables[i].name : i \in 1..Len(variables)}

\* -------------------------------------------------------- _NameParser

\* _NameParser._add_node: the node's position, when the name matches.
NP_add_node(st, n, name, wanted) ==
    IF name = wanted
    THEN [st EXCEPT !.names = @ \cup {[lineno |-> st.tree[n].lineno,
                                      col_offset |-> st.tree[n].col_offset]}]
    ELSE st

\* _NameParser._visit_def: node.col_offset += len('def ') / len('class '),
\* written to the node of the stored tree.
NP_shift(st, n) ==
    [st EXCEPT !.tree[n].col_offset =
        @ + (IF st.tree[n].kind = "FunctionDef" THEN 4 ELSE 6)]

RECURSIVE NP_visit(_, _, _)
RECURSIVE NP_each(_, _, _, _)

\* The loop of generic_visit over the children of node n.
NP_each(st, n, i, wanted) ==
    IF i > Len(Children(st.tree, n)) THEN st
    ELSE NP_each(NP_visit(st, Children(st.tree, n)[i], wanted), n, i + 1,
                 wanted)

NP_generic_visit(st, n, wanted) == NP_each(st, n, 1, wanted)

\* _NameParser.visit: visit_Name, visit_FunctionDef / visit_ClassDef
\* (_visit_def), generic_visit for every other node.
NP_visit(st, n, wanted) ==
    IF st.tree[n].kind = "Name"
    THEN NP_add_node(st, n, st.tree[n].name, wanted)
    ELSE IF st.tree[n].kind \in DefKinds
    THEN LET shifted == NP_shift(st, n)
         IN  NP_generic_visit(
                 NP_add_node(shifted, n, shifted.tree[n].name, wanted),
                 n, wanted)
    ELSE NP_generic_visit(st, n, wanted)

\* ------------------------------------------------------ Parser queries

\* dir(__builtin__) + keyword.kwlist: the reserved and built-in names.
builtins == {<<"i", "d">>, <<"l", "e", "n">>} \cup kwlist

\* The head of Parser.variables: the line of the index, moved back over
\* the lines that are empty or blank; 0 when no line is left.
LastNonBlank(lines, lineno) ==
    LET nonblank == {j \in 1..Len(lines) :
                        j <= lineno /\ ~IsBlankLine(lines[j])}
    IN  IF nonblank = {} THEN 0 ELSE SetMax(nonblank)

scope_line(source, index) ==
    LastNonBlank(splitlines(source), _calculate_lineno(source, index))

\* for node in path: parser.visit(node)
RECURSIVE visit_path(_, _, _, _, _)
visit_path(tree, path, i, lineno, variables) ==
    IF i > Len(path) \/ Raised(variables) THEN variables
    ELSE visit_path(tree, path, i + 1, lineno,
                    AP_visit(tree, path[i], lineno, variables))

\* The loop over the builtins with keyword.kwlist alone.
with_keywords(names) == names \cup kwlist

\* for builtin in builtins: if builtin not in variables: variables[builtin] = []
with_builtins(names) == names \cup builtins

\* max(indices) if indices else -1
most_recent(indices) == IF indices = {} THEN -1 ELSE SetMax(indices)

\* Parser.variables: name -> most recent index, -1 for an unbound builtin.
\* The bindings the parser collects along the path of the line.
collected(tree, new_lineno) ==
    visit_path(tree, _get_path(tree, new_lineno), 1, new_lineno, <<>>)

\* The tail of Parser.variables: the collected nodes as indices, the
\* builtins added, the most recent index of every name.
indexed(keep, found) ==
    [name \in with_builtins(Names(found)) |->
        most_recent(
            {IndexIn(keep, found[i].lineno, found[i].col_offset) :
                i \in {j \in 1..Len(found) : found[j].name = name}})]

variables_found(keep, found) ==
    IF Raised(found)
    THEN [exc |-> "AttributeError", result |-> <<>>]
    ELSE [exc |-> "none", result |-> indexed(keep, found)]

variables(tree, source, index) ==
    variables_found(splitlines_keepends(source),
                    collected(tree, scope_line(source, index)))

\* [node for node in reversed(path) if isinstance(node, (ast.Module,
\* ast.FunctionDef, ast.ClassDef))]: the scopes on the path, innermost
\* first.
RECURSIVE scope_nodes(_, _, _)
scope_nodes(tree, path, i) ==
    IF i < 1 THEN <<>>
    ELSE IF tree[path[i]].kind \in ScopeKinds
    THEN <<path[i]>> \o scope_nodes(tree, path, i - 1)
    ELSE scope_nodes(tree, path, i - 1)

\* if variable in scope_parser.variables: the scope when its bindings hold
\* the variable, 0 when they do not, -1 when visiting the scope raised.
scope_if_bound(scope, variable, found) ==
    IF Raised(found) THEN -1
    ELSE IF variable \in Names(found) THEN scope
    ELSE 0

\* The for/else over the scope nodes: the first scope whose bindings, at
\* an unbounded cutoff, hold the variable; 0 when none does, -1 when
\* visiting a scope raises.  scope_node is the outcome so far.
RECURSIVE defining_scope(_, _, _, _, _)
defining_scope(tree, scopes, i, variable, scope_node) ==
    IF scope_node # 0 \/ i > Len(scopes) THEN scope_node
    ELSE defining_scope(tree, scopes, i + 1, variable,
                        scope_if_bound(scopes[i], variable,
                                       AP_visit(tree, scopes[i], Inf, <<>>)))

\* The indices of the bindings of the variable in the scope.
binding_indices(tree, keep, scope_node, variable) ==
    LET found == AP_visit(tree, scope_node, Inf, <<>>)
    IN  {IndexIn(keep, found[i].lineno, found[i].col_offset) :
            i \in {j \in 1..Len(found) : found[j].name = variable}}

\* next((idx for idx in reversed(variable_indices) if idx <= index), 0)
prev_index(idxs, index) ==
    IF {idx \in idxs : idx <= index} = {} THEN 0
    ELSE SetMax({idx \in idxs : idx <= index})

\* next((idx for idx in variable_indices if idx > index), float('inf'))
next_index(idxs, index) ==
    IF {idx \in idxs : idx > index} = {} THEN Inf
    ELSE SetMin({idx \in idxs : idx > index})

\* The name parser's run over the scope and the ranges kept.
bounded_names(tree, source, index, variable, scope_node) ==
    LET keep == splitlines_keepends(source)
        idxs == binding_indices(tree, keep, scope_node, variable)
        np == NP_visit([tree |-> tree, names |-> {}], scope_node, variable)
    IN  [result |->
            {<<idx, Len(variable)>> :
                idx \in {IndexIn(keep, nd.lineno, nd.col_offset) :
                            nd \in {e \in np.names :
                                LET at == IndexIn(keep, e.lineno, e.col_offset)
                                IN  /\ prev_index(idxs, index) <= at
                                    /\ at < next_index(idxs, index)}}},
         tree |-> np.tree, exc |-> "none"]

\* Parser.variable_indices: the (index, length) pairs of the variable at
\* the index within its bounding definitions, and the tree as the name
\* parser leaves it.
variable_indices(tree, source, index) ==
    IF index < 0 \/ index >= Len(source)
    THEN [result |-> {}, tree |-> tree, exc |-> "none"]
    ELSE IF _word_at_index(source, index) = <<>>
    THEN [result |-> {}, tree |-> tree, exc |-> "none"]
    ELSE
    LET path == _get_path(tree, _calculate_lineno(source, index))
        scope_node == defining_scope(tree,
                                     scope_nodes(tree, path, Len(path)), 1,
                                     _word_at_index(source, index), 0)
    IN  IF scope_node = 0
        THEN [result |-> {}, tree |-> tree, exc |-> "none"]
        ELSE IF scope_node = -1
        THEN [result |-> {}, tree |-> tree, exc |-> "AttributeError"]
        ELSE bounded_names(tree, source, index,
                           _word_at_index(source, index), scope_node)

\* Code points in increasing order, for the comparison of names by
\* list.sort().
Ascii == <<"0","1","2","3","4","5","6","7","8","9",
           "A","B","C","D","E","F","G","H","I","J","K","L","M",
           "N","O","P","Q","R","S","T","U","V","W","X","Y","Z","_",
           "a","b","c","d","e","f","g","h","i","j","k","l","m",
           "n","o","p","q","r","s","t","u","v","w","x","y","z">>

ord(c) == CHOOSE i \in 1..Len(Ascii) : Ascii[i] = c

RECURSIVE StrLess(_, _)
StrLess(a, b) ==
    IF b = <<>> THEN FALSE
    ELSE IF a = <<>> THEN TRUE
    ELSE IF a[1] # b[1] THEN ord(a[1]) < ord(b[1])
    ELSE StrLess(Tail(a), Tail(b))

\* list.sort() of a dict's keys.
RECURSIVE SortedNames(_)
SortedNames(S) ==
    IF S = {} THEN <<>>
    ELSE LET least == CHOOSE a \in S : \A b \in S \ {a} : StrLess(a, b)
         IN  <<least>> \o SortedNames(S \ {least})

\* ast.get_docstring: the leading string statement of the body; the
\* modelled grammar has no string literal, so no body has one.
get_docstring(tree, n) == <<>>

\* {node.name: node for node in tree.body if isinstance(node, kind)}: the
\* last definition of a name is the one kept.
TopLevel(tree, kind) ==
    LET body == Body(tree, 1)
        names == {tree[body[i]].name :
                     i \in {j \in 1..Len(body) : tree[body[j]].kind = kind}}
    IN  [name \in names |->
            body[SetMax({j \in 1..Len(body) :
                            tree[body[j]].kind = kind
                            /\ tree[body[j]].name = name})]]

\* def_string: "{lineno} {name}\n{docstring}", followed by `tail` "\n\n".
def_string(tree, n, name, tail) ==
    [lineno |-> tree[n].lineno, name |-> name,
     docstring |-> get_docstring(tree, n), tail |-> tail]

\* Parser.documentation: "Functions\n\n", the function entries by sorted
\* name, "Classes\n\n", the class entries by sorted name.  Every class
\* appends "\n\n" to functions[name], a KeyError when no function has the
\* class's name.
documentation(tree) ==
    LET functions == TopLevel(tree, "FunctionDef")
        classes == TopLevel(tree, "ClassDef")
        function_names == SortedNames(DOMAIN functions)
        class_names == SortedNames(DOMAIN classes)
    IN  IF \E name \in DOMAIN classes : name \notin DOMAIN functions
        THEN [exc |-> "KeyError", result |-> <<>>]
        ELSE [exc |-> "none",
              result |->
                [functions |->
                    [i \in 1..Len(function_names) |->
                        def_string(tree, functions[function_names[i]],
                                   function_names[i],
                                   IF function_names[i] \in DOMAIN classes
                                   THEN 2 ELSE 1)],
                 classes |->
                    [i \in 1..Len(class_names) |->
                        def_string(tree, classes[class_names[i]],
                                   class_names[i], 0)]]]

\* ast.walk: the node and its descendants, breadth first: level by level,
\* every level in the order of the nodes.
walk(tree, n) ==
    LET todo == {i \in 1..Len(tree) : Under(tree, i, n)}
        Level(i) == Len(path_to(tree, n, i))
        Before(i, j) == \/ Level(i) < Level(j)
                        \/ Level(i) = Level(j) /\ i <= j
    IN  SubSeq([e \in 1..Cardinality(todo) |->
                   CHOOSE i \in todo :
                       Cardinality({j \in todo : Before(j, i)}) = e],
               1, Cardinality(todo))

\* _node_end without its walk: the line of the node itself.
_node_end_own_line(tree, n) == tree[n].lineno

\* _DefinitionParser._node_end: the highest line of the node's subtree.
_node_end(tree, n) ==
    LET w == walk(tree, n)
    IN  SetMax({tree[n].lineno} \cup
               {tree[w[i]].lineno :
                   i \in {j \in 1..Len(w) : tree[w[j]].lineno # NoLine}})

\* The loop and the result of _visit_def: from node.lineno on, the first
\* line that opens with the keyword; IndexError when the loop runs past the
\* last line.
DP_definition(tree, n, def_type, lines, prefix) ==
    LET opening == {k \in tree[n].lineno..Len(lines) :
                       startswith(strip(lines[k]), prefix)}
        lineno == IF opening # {} THEN SetMin(opening)
                  ELSE IF tree[n].lineno > Len(lines) THEN tree[n].lineno
                  ELSE Len(lines) + 1
    IN  IF lineno > Len(lines)
        THEN [exc |-> "IndexError"]
        ELSE LET line == strip(lines[lineno])
                 title == SubSeq(line, Len(prefix) + 1, Len(line))
             IN  [exc |-> "none",
                  title |-> IF title # <<>> /\ title[Len(title)] = ":"
                            THEN SubSeq(title, 1, Len(title) - 1)
                            ELSE title \o <<" ", ".", ".", ".">>,
                  range |-> <<lineno, _node_end(tree, n) - lineno + 1>>,
                  docstring |-> get_docstring(tree, n),
                  type |-> def_type]

\* _DefinitionParser._visit_def: the _Definition of a FunctionDef or
\* ClassDef.
DP_visit_def(tree, source, n, def_type) ==
    DP_definition(tree, n, def_type, splitlines(source),
                  IF tree[n].kind = "FunctionDef" THEN kwDef \o <<" ">>
                  ELSE kwClass \o <<" ">>)

\* The type of the definition visiting one node adds: visit_FunctionDef
\* adds a function, visit_ClassDef a class, and the loop of visit_ClassDef
\* adds a FunctionDef child of the class as a method.
DP_type(tree, n, how) ==
    IF how = "visit" /\ tree[n].kind = "FunctionDef" THEN "function"
    ELSE IF how = "visit" /\ tree[n].kind = "ClassDef" THEN "class"
    ELSE IF how = "child of class" /\ tree[n].kind = "FunctionDef"
    THEN "method"
    ELSE "none"

\* What visiting one node adds to the definitions.
DP_added(tree, source, n, how) ==
    IF DP_type(tree, n, how) = "none" THEN <<>>
    ELSE <<DP_visit_def(tree, source, n, DP_type(tree, n, how))>>

\* How the traversal from node n reaches node i: visit_ClassDef hands the
\* children of the class to its own loop, which generic_visit's each of
\* them; every other node's children are visit'ed by generic_visit.
RECURSIVE DP_how(_, _, _)
DP_how(tree, n, i) ==
    IF i = n THEN "visit"
    ELSE IF /\ tree[tree[i].parent].kind = "ClassDef"
            /\ DP_how(tree, n, tree[i].parent) = "visit"
    THEN "child of class"
    ELSE "visit"

\* _DefinitionParser.visit: the definitions in visiting order, depth first
\* in child order, which is the order of the nodes.
DP_visit(tree, source, n) ==
    LET at == Ascending({i \in 1..Len(tree) :
                            /\ Under(tree, i, n)
                            /\ DP_type(tree, i, DP_how(tree, n, i)) # "none"})
    IN  SubSeq([e \in 1..Len(at) |->
                   DP_added(tree, source, at[e], DP_how(tree, n, at[e]))[1]],
               1, Len(at))

\* The dictionary navigation builds from the definitions: range ->
\* NavigationItem, a later definition of the same range replacing an
\* earlier one.
NavigationItems(definitions) ==
    [r \in {definitions[i].range : i \in 1..Len(definitions)} |->
        [name |-> definitions[SetMax({i \in 1..Len(definitions) :
                                         definitions[i].range = r})].title,
         type |-> definitions[SetMax({i \in 1..Len(definitions) :
                                         definitions[i].range = r})].type]]

navigation_of(definitions) ==
    IF \E i \in 1..Len(definitions) : definitions[i].exc # "none"
    THEN [exc |-> "IndexError", result |-> <<>>]
    ELSE [exc |-> "none", result |-> NavigationItems(definitions)]

\* Parser.navigation.
navigation(tree, source) == navigation_of(DP_visit(tree, source, 1))

\* The node kinds nestable_lines folds.
NestKinds == {"FunctionDef", "ClassDef", "If", "For", "TryExcept",
              "TryFinally"}

\* The inner loop of nestable_lines: the highest lineno of the walk of a
\* nestable node, from end = 0.
nest_end(tree, n) ==
    LET subnodes == walk(tree, n)
    IN  SetMax({0} \cup {tree[subnodes[e]].lineno : e \in 1..Len(subnodes)})

\* The loop over the walk of one statement of the module body.
nests_of(tree, nodes, i) ==
    LET at == Ascending({e \in i..Len(nodes) :
                            tree[nodes[e]].kind \in NestKinds})
    IN  SubSeq([e \in 1..Len(at) |->
                   <<tree[nodes[at[e]]].lineno, nest_end(tree, nodes[at[e]])>>],
               1, Len(at))

RECURSIVE nests_from(_, _, _)
nests_from(tree, body, i) ==
    IF i > Len(body) THEN <<>>
    ELSE nests_of(tree, walk(tree, body[i]), 1) \o nests_from(tree, body, i + 1)

\* Parser.nestable_lines: (lineno, highest line below) of every nestable
\* node, walking each statement of the module body in turn.
nestable_lines(tree) == nests_from(tree, Body(tree, 1), 1)

\* The Import and ImportFrom nodes in the order modules() meets them: the
\* walk of each statement of the module body in turn.
RECURSIVE import_nodes(_, _, _)
import_nodes(tree, body, i) ==
    IF i > Len(body) THEN <<>>
    ELSE LET IsImport(e) == tree[e].kind \in {"Import", "ImportFrom"}
         IN  SelectSeq(walk(tree, body[i]), IsImport)
               \o import_nodes(tree, body, i + 1)

\* subnode.names[0].name of an Import, subnode.module of an ImportFrom.
module_name(tree, node) ==
    IF tree[node].kind = "Import" THEN tree[tree[node].children[1]].name
    ELSE tree[node].name

\* What imp.find_module and reading the file give for a module name: a
\* Python source file, a compiled extension (ast.parse raises TypeError on
\* its bytes and imp.load_dynamic loads it), or no module (ImportError).
FindOutcomes == {"source", "extension", "missing"}

\* The loop of Parser.modules over the import nodes.  `info` is the local
\* module_info, "unbound" until an except clause has assigned it; the else
\* clause calls self._functions(), which Parser does not define
\* (AttributeError).  The finally clause reads module_info
\* (UnboundLocalError while it is unbound) before the pending exception
\* goes on to the caller; for a from-import it evaluates
\* module_info[imported_name], a list indexed by a name (TypeError), when
\* the name is in the list: dir() of a module holds the symbol imported
\* from it, and not the symbol imported from another module.
RECURSIVE modules_each(_, _, _, _, _)
modules_each(tree, env, nodes, i, st) ==
    IF i > Len(nodes) \/ st.exc # "none" THEN st
    ELSE LET name == module_name(tree, nodes[i])
             pending == IF env[name] = "source" THEN "AttributeError"
                        ELSE IF env[name] = "missing" THEN "ImportError"
                        ELSE "none"
             info == IF env[name] = "extension" THEN <<"dir", name>>
                     ELSE st.info
         IN  modules_each(
                 tree, env, nodes, i + 1,
                 IF info = "unbound"
                 THEN [st EXCEPT !.exc = "UnboundLocalError"]
                 ELSE IF tree[nodes[i]].kind = "ImportFrom"
                 THEN [st EXCEPT !.info = info,
                                 !.exc = IF env[name] = "extension"
                                         THEN "TypeError" ELSE pending]
                 ELSE [modules |->
                          [key \in DOMAIN st.modules \cup {name} |->
                              IF key = name THEN info ELSE st.modules[key]],
                       info |-> info,
                       exc |-> pending])

\* Parser.modules: module name -> module info, or the exception raised.
modules(tree, env) ==
    LET st == modules_each(tree, env, import_nodes(tree, Body(tree, 1), 1), 1,
                           [modules |-> <<>>, info |-> "unbound",
                            exc |-> "none"])
    IN  [exc |-> st.exc,
         result |-> IF st.exc = "none" THEN st.modules ELSE <<>>]

\* ------------------------------------------------- the source property

\* The bytes 0xC3 0xA9 (UTF-8 for U+00E9) and the byte 0xFF (never valid
\* in UTF-8), as they may stand in a comment of a str source.
ByteC3 == "xC3"
ByteA9 == "xA9"
ByteFF == "xFF"
CharE9 == "uE9"

utf8_decode(bytes) ==
    LET bad == {i \in 1..Len(bytes) :
                   \/ bytes[i] = ByteFF
                   \/ bytes[i] = ByteC3
                        /\ (i = Len(bytes) \/ bytes[i + 1] # ByteA9)
                   \/ bytes[i] = ByteA9 /\ (i = 1 \/ bytes[i - 1] # ByteC3)}
        first == {i \in 1..Len(bytes) : bytes[i] # ByteA9}
    IN  IF bad # {} THEN [exc |-> "UnicodeDecodeError", text |-> <<>>]
        ELSE [exc |-> "none",
              text |-> [j \in 1..Cardinality(first) |->
                           LET at == CHOOSE i \in first :
                                         Cardinality({e \in first : e < i})
                                             = j - 1
                           IN  IF bytes[at] = ByteC3 THEN CharE9
                               ELSE bytes[at]]]

\* unicode(new_source, 'UTF-8'): decoding a str; a unicode object is
\* refused with TypeError ("decoding Unicode is not supported").
unicode(new_source) ==
    IF new_source.type = "unicode"
    THEN [exc |-> "TypeError", text |-> <<>>]
    ELSE utf8_decode(new_source.chars)

\* ----------------------------------------------------- source fixtures

Ind(n) == [i \in 1..n |-> " "]

LAssign(ind, name, value) == Ind(ind) \o name \o <<" ", "=", " ">> \o value \o <<NL>>

LDef(ind, name, arg) ==
    Ind(ind) \o kwDef \o <<" ">> \o name \o <<"(">> \o arg \o <<")", ":", NL>>

LClass(ind, name) == Ind(ind) \o kwClass \o <<" ">> \o name \o <<":", NL>>

LIf(ind, name) == Ind(ind) \o kwIf \o <<" ">> \o name \o <<":", NL>>

LPrint(ind, name) == Ind(ind) \o kwPrint \o <<" ">> \o name \o <<NL>>

LExpr(ind, name) == Ind(ind) \o name \o <<NL>>

LWhile(ind, name) == Ind(ind) \o kwWhile \o <<" ">> \o name \o <<":", NL>>

LFor(ind, target, iter) ==
    Ind(ind) \o kwFor \o <<" ">> \o target \o <<" ">> \o kwIn \o <<" ">>
      \o iter \o <<":", NL>>

LImport(ind, name) == Ind(ind) \o kwImport \o <<" ">> \o name \o <<NL>>

LFrom(ind, module, name) ==
    Ind(ind) \o kwFrom \o <<" ">> \o module \o <<" ">> \o kwImport
      \o <<" ">> \o name \o <<NL>>

LBlank == <<NL>>

LComment == <<"#", "c", NL>>

a == <<"a">>
b == <<"b">>
c == <<"c">>
f == <<"f">>
g == <<"g">>
h == <<"h">>
k == <<"k">>
m == <<"m">>
n == <<"n">>
q == <<"q">>
r == <<"r">>
v == <<"v">>
w == <<"w">>
x == <<"x">>
y == <<"y">>
z == <<"z">>
one == <<"1">>
two == <<"2">>
none == <<>>

\* simple_source of test_parse.py with one-letter names and one-blank
\* indentation: a rebinding inside a function and one at module level.
simple_source ==
    LAssign(0, x, one) \o LPrint(0, x) \o LDef(0, f, none)
      \o LAssign(1, y, one) \o LPrint(1, y) \o LAssign(1, y, two)
      \o LAssign(0, x, two) \o LPrint(0, x) \o LPrint(0, y)

\* source of test_parse.py, its func1 / in_func / func2 part: a function
\* nested in a top-level function, and a sibling top-level function.
nested_source ==
    LAssign(0, v, one) \o LDef(0, f, a) \o LAssign(1, x, one)
      \o LDef(1, g, b) \o LAssign(2, y, a) \o LPrint(2, b)
      \o LPrint(1, x) \o LDef(0, h, c) \o LAssign(1, z, c)
      \o LAssign(0, w, two)

\* source of test_parse.py, its Cls part, below a blank and a comment
\* line: a class with two methods, and a function after it.
class_source ==
    LBlank \o LComment \o LClass(0, <<"C">>) \o LDef(1, m, a)
      \o LAssign(2, x, one) \o LDef(1, n, b) \o LAssign(2, y, two)
      \o LBlank \o LDef(0, f, none) \o LAssign(1, z, one)

\* source of test_parse.py, its func3 part: definitions inside a
\* conditional, in a function body and at module level.
if_source ==
    LDef(0, f, a) \o LIf(1, a) \o LDef(2, k, q) \o LAssign(3, r, q)
      \o LAssign(1, x, one) \o LIf(0, x) \o LDef(1, h, c)
      \o LAssign(2, z, c) \o LPrint(0, x)

\* A module-level rebinding on the line after a function that binds the
\* same name, and a use of a name only that function binds.
rebind_source ==
    LAssign(0, x, one) \o LDef(0, f, none) \o LAssign(1, x, two)
      \o LAssign(1, y, x) \o LAssign(0, x, two) \o LPrint(0, x)
      \o LDef(0, g, none) \o LAssign(1, z, one) \o LExpr(0, z)

\* Built-in names bound by the user, and a function and a class of one
\* name.
shadow_source ==
    LAssign(0, <<"i", "d">>, one) \o LDef(0, <<"l", "e", "n">>, a)
      \o LPrint(1, <<"i", "d">>) \o LClass(0, <<"l", "e", "n">>)
      \o LAssign(1, y, one)

\* A last line without a line break, below a comment with a non-ASCII
\* character.
tail_source ==
    <<"#", ByteC3, ByteA9, NL>> \o LAssign(0, x, one) \o <<"x">>

\* Two short sources: a function between two bindings of a name, and a
\* class with a method.
def_source ==
    LAssign(0, x, one) \o LDef(0, f, none) \o LAssign(1, y, x)
      \o LAssign(0, x, two)

cls_source == LClass(0, <<"C">>) \o LDef(1, m, a) \o LAssign(2, x, a)

\* source of test_parse.py, the loops of its func3 part: a while loop and
\* a for loop with a conditional in its body.
loop_source ==
    LAssign(0, x, one) \o LWhile(0, x) \o LAssign(1, y, two)
      \o LFor(0, a, x) \o LIf(1, a) \o LAssign(2, z, a)

\* source of test_parse.py, its first line: an import at module level, and
\* imports inside a function.
import_source ==
    LImport(0, m) \o LDef(0, f, none) \o LFrom(1, k, g) \o LImport(1, z)
      \o LAssign(0, x, m)

\* source of test_parse.py, the comprehensions of its func3 part: tuple
\* targets of an assignment, of a loop and of a comprehension, with and
\* without parentheses.
tuple_source ==
    LAssign(0, <<"x", ",", " ", "y">>, one)
      \o LFor(0, <<"q", ",", " ", "r">>, x)
      \o LAssign(1, z, <<"[", "v", " ", "f", "o", "r", " ", "(", "v", ",", " ",
                          "w", ")", " ", "i", "n", " ", "y", "]">>)
      \o LAssign(0, <<"(", "a", ",", " ", "b", ")">>, x)
      \o LAssign(0, c, <<"[", "h", " ", "f", "o", "r", " ", "h", " ", "i", "n",
                          " ", "x", "]">>)

\* A list target of an assignment and of a comprehension.
list_source ==
    LAssign(0, <<"[", "a", ",", " ", "b", "]">>, one) \o LPrint(0, a)
      \o LAssign(0, z, <<"[", "v", " ", "f", "o", "r", " ", "[", "v", ",", " ",
                          "w", "]", " ", "i", "n", " ", "y", "]">>)

\* A tuple target with a tuple among its elements, in a function.
deep_source ==
    LAssign(0, y, one) \o LDef(0, f, none)
      \o LAssign(1, <<"x", ",", " ", "(", "y", ",", " ", "z", ")">>, one)

\* A tuple target with an attribute among its elements, and an attribute
\* as the target of a comprehension in a function.
attr_source ==
    LAssign(0, x, one) \o LAssign(0, <<"x", ".", "a", ",", " ", "c">>, one)
      \o LDef(0, f, none)
      \o LAssign(1, z, <<"[", "v", " ", "f", "o", "r", " ", "x", ".", "a", " ",
                          "i", "n", " ", "y", "]">>)

Str(chars) == [type |-> "str", chars |-> chars]

\* Sources with loops, imports and destructured targets.
MoreSources ==
    {Str(loop_source), Str(import_source), Str(tuple_source),
     Str(list_source), Str(deep_source), Str(attr_source)}

\* The sources that parse and decode.
Sources ==
    {Str(<<>>), Str(simple_source), Str(nested_source), Str(class_source),
     Str(if_source), Str(rebind_source), Str(shadow_source),
     Str(tail_source)}

\* Sources that ast.parse refuses: an indented first statement, a
\* parameter list left open, a header without a body, no right-hand side.
Unparsable ==
    {Str(LAssign(1, x, one)), Str(<<"d","e","f"," ","f","(",":",NL>>),
     Str(LDef(0, f, none)), Str(<<"x"," ","=",NL>>),
     [type |-> "unicode", chars |-> LIf(0, x)]}

\* Sources that parse and do not decode: an invalid byte in a comment of
\* a str, and a unicode object.
Undecodable ==
    {Str(<<"#", ByteFF, NL>> \o LDef(0, g, none) \o LAssign(1, y, two)),
     [type |-> "unicode", chars |-> LAssign(0, z, one) \o LPrint(0, z)]}

\* The sources assigned between queries.
Inputs ==
    {Str(<<>>), Str(def_source), Str(cls_source), Str(LDef(0, f, none)),
     [type |-> "unicode", chars |-> LAssign(0, z, one) \o LPrint(0, z)]}

AllInputs ==
    Sources \cup MoreSources \cup Inputs \cup Unparsable \cup Undecodable

\* ---------------------------------------------------------- the machine

\* The bound on node.col_offset beyond which variable_indices is no
\* longer called (every call adds to the offsets of the definitions).
MaxColOffset == 3

Call(op, arg, exc, result) ==
    [op |-> op, arg |-> arg, exc |-> exc, result |-> result]

\* ast.parse and unicode of every input, computed once.
ParsedInputs ==
    {[src |-> src, parsed |-> ast_parse(src.chars), decoded |-> unicode(src)] :
        src \in AllInputs}

Parsed(src) == (CHOOSE p \in ParsedInputs : p.src = src).parsed

Decoded(src) == (CHOOSE p \in ParsedInputs : p.src = src).decoded

\* Parser(): __init__ assigns the default source "".
Init ==
    /\ _tree = ast_parse(<<>>).tree
    /\ _source = utf8_decode(<<>>).text
    /\ call = Call("__init__", 0, "none", <<>>)

\* Parser(source): __init__ assigns a source that parses and decodes.
InitSource ==
    \E src \in Sources :
        /\ _tree = Parsed(src).tree
        /\ _source = Decoded(src).text
        /\ call = Call("__init__", 0, "none", <<>>)

\* Parser(source), the sources with loops, imports and destructured
\* targets included.
InitMore ==
    \E src \in Sources \cup MoreSources :
        /\ _tree = Parsed(src).tree
        /\ _source = Decoded(src).text
        /\ call = Call("__init__", 0, "none", <<>>)

\* The setter with the text stored before the source is parsed.
source_setter_text_first(new_source) ==
    /\ _source' = new_source.chars
    /\ IF Parsed(new_source).exc # "none"
       THEN /\ UNCHANGED _tree
            /\ call' = Call("source", new_source, Parsed(new_source).exc, <<>>)
       ELSE /\ _tree' = Parsed(new_source).tree
            /\ call' = Call("source", new_source, "none", <<>>)

\* Parser.source = new_source:
\*     self._tree = ast.parse(new_source)
\*     self._source = unicode(new_source, 'UTF-8')
source_setter(new_source) ==
    LET parsed == Parsed(new_source)
        decoded == Decoded(new_source)
    IN  IF parsed.exc # "none"
        THEN /\ UNCHANGED <<_tree, _source>>
             /\ call' = Call("source", new_source, parsed.exc, <<>>)
        ELSE /\ _tree' = parsed.tree
             /\ IF decoded.exc # "none"
                THEN /\ UNCHANGED _source
                     /\ call' = Call("source", new_source, decoded.exc, <<>>)
                ELSE /\ _source' = decoded.text
                     /\ call' = Call("source", new_source, "none", <<>>)

SetSource == \E new_source \in Inputs : source_setter(new_source)

SetAnySource == \E new_source \in AllInputs : source_setter(new_source)

Offsets == -1..(Len(_source) + 1)

Variables ==
    \E index \in Offsets :
        LET got == variables(_tree, _source, index)
        IN  /\ call' = Call("variables", index, got.exc, got.result)
            /\ UNCHANGED <<_tree, _source>>

VariableIndices ==
    /\ \A i \in 1..Len(_tree) :
          _tree[i].kind \in DefKinds => _tree[i].col_offset <= MaxColOffset
    /\ \E index \in Offsets :
          LET got == variable_indices(_tree, _source, index)
          IN  /\ call' = Call("variable_indices", index, got.exc, got.result)
              /\ _tree' = got.tree
              /\ UNCHANGED _source

Documentation ==
    LET got == documentation(_tree)
    IN  /\ call' = Call("documentation", 0, got.exc, got.result)
        /\ UNCHANGED <<_tree, _source>>

Navigation ==
    LET got == navigation(_tree, _source)
    IN  /\ call' = Call("navigation", 0, got.exc, got.result)
        /\ UNCHANGED <<_tree, _source>>

NestableLines ==
    /\ call' = Call("nestable_lines", 0, "none", nestable_lines(_tree))
    /\ UNCHANGED <<_tree, _source>>

Next ==
    \/ SetSource
    \/ Variables
    \/ VariableIndices
    \/ Documentation
    \/ Navigation
    \/ NestableLines

Spec == Init /\ [][Next]_vars

\* The source property alone: every sequence of assignments.
SpecSource == Init /\ [][SetAnySource]_vars

\* Parser(source) and one variable_indices call.
InitQueried ==
    \E src \in Sources :
        \E index \in -1..Len(Decoded(src).text) :
            /\ _tree = variable_indices(Parsed(src).tree, Decoded(src).text,
                                        index).tree
            /\ _source = Decoded(src).text
            /\ call = Call("__init__", 0, "none", <<>>)

\* variables() on a parser constructed with a source and queried once.
SpecVariables == InitQueried /\ [][Variables]_vars

\* variable_indices() on a parser constructed with a source.
SpecIndices == InitSource /\ [][VariableIndices]_vars

\* The outcome of a collection: the variables, or the exception raised on
\* the way.
Collected(root, cutoff, found) ==
    Call("collect", <<root, cutoff>>,
         IF Raised(found) THEN "AttributeError" ELSE "none",
         IF Raised(found) THEN <<>> ELSE found)

\* _AssignParser(cutoff).visit(scope root), for every scope of the tree.
Collect ==
    \E root \in {i \in 1..Len(_tree) : _tree[i].kind \in ScopeKinds} :
        \E cutoff \in (0..(_node_end(_tree, 1) + 1)) \cup {Inf} :
            /\ call' = Collected(root, cutoff,
                                 AP_visit(_tree, root, cutoff, <<>>))
            /\ UNCHANGED <<_tree, _source>>

SpecCollect == InitSource /\ [][Collect]_vars

\* navigation() and nestable_lines() on a parser constructed with a source,
\* between variable_indices() calls.
\* Parser.modules(), for every outcome of looking up the imported modules.
Modules ==
    \E env \in [{module_name(_tree, i) :
                    i \in {j \in 1..Len(_tree) :
                              _tree[j].kind \in {"Import", "ImportFrom"}}}
                 -> FindOutcomes] :
        LET got == modules(_tree, env)
        IN  /\ call' = Call("modules", env, got.exc, got.result)
            /\ UNCHANGED <<_tree, _source>>

NextOutline ==
    \/ VariableIndices
    \/ Navigation
    \/ NestableLines
    \/ Modules

SpecOutline == InitMore /\ [][NextOutline]_vars

\* _AssignParser(cutoff).visit(scope root) on a parser constructed with any
\* of the sources.
SpecTargets == InitMore /\ [][Collect]_vars

\* _calculate_index of a line and a column of the text, and
\* Parser._calculate_lineno of the index it gives.
CalculateLineno ==
    \E lineno \in 1..Len(splitlines_keepends(_source)) :
        \E col_offset \in 0..(Len(splitlines_keepends(_source)[lineno]) - 1) :
            /\ call' = Call("_calculate_lineno",
                            [lineno |-> lineno, col_offset |-> col_offset,
                             index |-> _calculate_index(_source, lineno,
                                                        col_offset)],
                            "none",
                            _calculate_lineno(
                                _source,
                                _calculate_index(_source, lineno, col_offset)))
            /\ UNCHANGED <<_tree, _source>>

SpecPosition == InitSource /\ [][CalculateLineno]_vars

\* The bound on node.col_offset beyond which variable_indices is no
\* longer called again on an occurrence it returned.
MaxRequeryOffset == 8

\* variable_indices(q) for an occurrence (q, n) the last call returned.
VariableIndicesAtOccurrence ==
    /\ call.op = "variable_indices"
    /\ \A i \in 1..Len(_tree) :
          _tree[i].kind \in DefKinds => _tree[i].col_offset <= MaxRequeryOffset
    /\ \E pair \in call.result :
          LET got == variable_indices(_tree, _source, pair[1])
          IN  /\ call' = Call("variable_indices", pair[1], got.exc,
                               got.result)
              /\ _tree' = got.tree
              /\ UNCHANGED _source

NextRequery ==
    \/ VariableIndices
    \/ VariableIndicesAtOccurrence

\* variable_indices() calls, each later one on an occurrence returned by
\* the call before it.
SpecRequery == InitSource /\ [][NextRequery]_vars

\* ------------------------------------------------------------ the claims

\* The nearest scope (Module, FunctionDef, ClassDef) above a node; 0 above
\* the Module.
RECURSIVE ScopeFrom(_, _)
ScopeFrom(tree, node) ==
    IF node = 0 THEN 0
    ELSE IF tree[node].kind \in ScopeKinds THEN node
    ELSE ScopeFrom(tree, tree[node].parent)

EnclosingScope(tree, node) == ScopeFrom(tree, tree[node].parent)

\* Whether `node` lies below `top` in the tree.
RECURSIVE Within(_, _, _)
Within(tree, node, top) ==
    IF tree[node].parent = 0 THEN FALSE
    ELSE IF tree[node].parent = top THEN TRUE
    ELSE Within(tree, tree[node].parent, top)

\* The Name nodes that bind: assignment targets and parameters.
IsBindingName(tree, node) ==
    tree[node].kind = "Name" /\ tree[node].ctx \in {"Store", "Param"}

OffsetOf(keep, node) == IndexIn(keep, node.lineno, node.col_offset)

QueryOps ==
    {"variables", "variable_indices", "documentation", "navigation",
     "nestable_lines"}

\* C1: assigning a source that fails to parse raises to the caller and
\* leaves the stored tree and the stored text as they were before the
\* assignment, whatever the prior state.
C1_FailedParseKeepsState ==
    [][(call'.op = "source" /\ Parsed(call'.arg).exc # "none")
          => /\ call'.exc = "SyntaxError"
             /\ _tree' = _tree
             /\ _source' = _source]_vars

\* A failed assignment to a parser that holds a source with statements.
C1_Witness ==
    /\ call.op = "source"
    /\ call.exc = "SyntaxError"
    /\ _source # <<>>
    /\ Len(_tree) > 1

\* C2: in every state reached by source assignments, each succeeding or
\* failing at any of its steps, the stored tree is the parse of the stored
\* text.
C2_TreeIsParseOfText == _tree = ast_parse(_source).tree

\* C3: no query changes the tree: after a variables, variable_indices,
\* documentation, navigation or nestable_lines call every node has the line
\* and column it had before the call.
C3_QueriesKeepTree ==
    [][call'.op \in QueryOps => _tree' = _tree]_vars

\* C4: collecting a scope yields, for a definition located anywhere below
\* the scope root, no binding made inside that definition: no collected
\* node is a node below a definition that lies below the root.
C4_NestedBodiesInvisible ==
    call.op = "collect" =>
        \A def \in 1..Len(_tree) :
            (_tree[def].kind \in DefKinds /\ Within(_tree, def, call.arg[1]))
            => \A i \in 1..Len(call.result) :
                   \A inner \in 1..Len(_tree) :
                       ~ /\ _tree[inner].kind \in {"Name"} \cup DefKinds
                         /\ Within(_tree, inner, def)
                         /\ _tree[inner].name = call.result[i].name
                         /\ _tree[inner].lineno = call.result[i].lineno
                         /\ _tree[inner].col_offset = call.result[i].col_offset

TopFunctions(tree) ==
    {i \in 1..Len(tree) : tree[i].kind = "FunctionDef" /\ tree[i].parent = 1}

ParamNames(tree, fn) ==
    {tree[Args(tree, fn)[j]].name : j \in 1..Len(Args(tree, fn))}

\* The names a scope binds itself, by assignment or definition, on a line
\* up to `line`.
BoundUpTo(tree, scope, line) ==
    {tree[i].name :
        i \in {j \in 1..Len(tree) :
                  /\ \/ tree[j].kind = "Name" /\ tree[j].ctx = "Store"
                     \/ tree[j].kind \in DefKinds
                  /\ EnclosingScope(tree, j) = scope
                  /\ tree[j].lineno <= line}}

ModuleDefNames(tree) ==
    {tree[i].name :
        i \in {j \in 1..Len(tree) :
                  tree[j].kind \in DefKinds /\ tree[j].parent = 1}}

\* The names bound by a parameter or an assignment of another top-level
\* function than fn, and by nothing else in the module.
OnlyInOtherFunctions(tree, fn) ==
    {tree[i].name :
        i \in {j \in 1..Len(tree) :
                  /\ IsBindingName(tree, j)
                  /\ \E other \in TopFunctions(tree) \ {fn} :
                         Within(tree, j, other)}}
    \ ({tree[i].name :
           i \in {j \in 1..Len(tree) :
                     /\ IsBindingName(tree, j)
                     /\ \A other \in TopFunctions(tree) \ {fn} :
                            ~Within(tree, j, other)}}
       \cup ModuleDefNames(tree) \cup builtins)

\* The query line holds a statement of the body of `inner`, a function
\* defined directly in the body of the top-level function fn.
InNestedBody(tree, fn, inner, line) ==
    /\ fn \in TopFunctions(tree)
    /\ tree[inner].kind = "FunctionDef"
    /\ tree[inner].parent = fn
    /\ \E stmt \in 1..Len(tree) :
           /\ IsStmt(tree, stmt)
           /\ EnclosingScope(tree, stmt) = inner
           /\ tree[stmt].lineno = line

VisibleInNested(tree, fn, inner, line, keys) ==
    /\ ParamNames(tree, fn) \subseteq keys
    /\ ParamNames(tree, inner) \subseteq keys
    /\ BoundUpTo(tree, fn, line) \subseteq keys
    /\ BoundUpTo(tree, inner, line) \subseteq keys
    /\ ModuleDefNames(tree) \subseteq keys
    /\ BoundUpTo(tree, 1, line) \subseteq keys
    /\ keys \cap OnlyInOtherFunctions(tree, fn) = {}

\* C5: for a query line inside the body of a function nested directly in
\* a top-level function, variables() holds the parameters of both, the
\* names both bind at or before the line, every module-level definition
\* name and every module-level name bound at or before the line, and no
\* name that only another top-level function binds.
C5_NestedFunctionScope ==
    call.op = "variables" =>
        \A fn \in 1..Len(_tree) :
            \A inner \in 1..Len(_tree) :
                InNestedBody(_tree, fn, inner,
                             _calculate_lineno(_source, call.arg))
                => VisibleInNested(_tree, fn, inner,
                                   _calculate_lineno(_source, call.arg),
                                   DOMAIN call.result)

\* A query in a nested function whose enclosing function and itself have
\* parameters and a local, beside another top-level function with names of
\* its own.
C5_Witness ==
    /\ call.op = "variables"
    /\ \E fn \in 1..Len(_tree) :
           \E inner \in 1..Len(_tree) :
               /\ InNestedBody(_tree, fn, inner,
                               _calculate_lineno(_source, call.arg))
               /\ ParamNames(_tree, fn) # {}
               /\ ParamNames(_tree, inner) # {}
               /\ BoundUpTo(_tree, inner,
                            _calculate_lineno(_source, call.arg)) # {}
               /\ OnlyInOtherFunctions(_tree, fn) # {}

\* C6: for every offset, variables(offset) holds the name of every
\* function and class defined at module top level.
C6_TopLevelNamesAlwaysBound ==
    (call.op = "variables" /\ call.arg >= 0 /\ call.arg <= Len(_source))
        => ModuleDefNames(_tree) \subseteq DOMAIN call.result

SentinelOrBinding(result, found, keep) ==
    /\ builtins \subseteq DOMAIN result
    /\ \A name \in DOMAIN result :
           IF name \in Names(found)
           THEN \E i \in 1..Len(found) :
                    /\ found[i].name = name
                    /\ result[name] = OffsetOf(keep, found[i])
                    /\ result[name] >= 0
           ELSE name \in builtins /\ result[name] = -1

\* C7: every reserved or built-in identifier is a key of every variables()
\* result, mapped to -1 unless a binding of that name was collected, and
\* then to the offset of such a binding; every other key is a collected
\* binding; for the empty source the result is the built-in vocabulary,
\* each mapped to -1.
C7_BuiltinsAlwaysPresent ==
    call.op = "variables" =>
        /\ SentinelOrBinding(call.result,
                             collected(_tree, scope_line(_source, call.arg)),
                             splitlines_keepends(_source))
        /\ _source = <<>> =>
               /\ DOMAIN call.result = builtins
               /\ \A name \in builtins : call.result[name] = -1

\* A result in which the source binds the built-in names id and len and
\* binds no keyword.
C7_Witness ==
    /\ call.op = "variables"
    /\ call.result[<<"i", "d">>] >= 0
    /\ call.result[<<"l", "e", "n">>] >= 0
    /\ call.result[kwPrint] = -1

NamesAt(tree, keep, index) ==
    {i \in 1..Len(tree) :
        /\ tree[i].kind = "Name"
        /\ OffsetOf(keep, tree[i]) <= index
        /\ index < OffsetOf(keep, tree[i]) + Len(tree[i].name)}

BindingsIn(tree, keep, scope, name) ==
    {OffsetOf(keep, tree[i]) :
        i \in {j \in 1..Len(tree) :
                  /\ IsBindingName(tree, j)
                  /\ tree[j].name = name
                  /\ EnclosingScope(tree, j) = scope}}

DefinedIn(tree, scope, name) ==
    \E def \in 1..Len(tree) :
        /\ tree[def].kind \in DefKinds
        /\ tree[def].name = name
        /\ (def = scope \/ EnclosingScope(tree, def) = scope)

InWindow(result, before, after) ==
    \A pair \in result :
        /\ SetMax(before) <= pair[1]
        /\ after # {} => pair[1] < SetMin(after)

\* C8: called on an occurrence of a name in a scope that binds it at A and
\* rebinds it at B > A, variable_indices returns only offsets in [A, B)
\* when the offset is in [A, B) and only offsets >= B (below the next
\* rebinding) when the offset is >= B.
C8_RebindingWindows ==
    call.op = "variable_indices" =>
        \A node \in NamesAt(_tree, splitlines_keepends(_source), call.arg) :
            LET binds == BindingsIn(_tree, splitlines_keepends(_source),
                                    EnclosingScope(_tree, node),
                                    _tree[node].name)
            IN  (/\ {at \in binds : at <= call.arg} # {}
                 /\ ~DefinedIn(_tree, EnclosingScope(_tree, node),
                               _tree[node].name))
                => InWindow(call.result,
                            {at \in binds : at <= call.arg},
                            {at \in binds : at > call.arg})

EnclosingScopes(tree, node) ==
    {scope \in 1..Len(tree) :
        tree[scope].kind \in ScopeKinds /\ Within(tree, node, scope)}

\* C9: variable_indices returns the empty list, without raising, when the
\* offset is outside the text, when the character at the offset is no
\* identifier character, and when the identifier at the offset is bound in
\* no scope that encloses it.
C9_EmptyWhenNothingBound ==
    call.op = "variable_indices" =>
        /\ call.exc = "none"
        /\ (call.arg < 0 \/ call.arg >= Len(_source)) => call.result = {}
        /\ (/\ call.arg >= 0
            /\ call.arg < Len(_source)
            /\ _source[call.arg + 1] \notin IdChars) => call.result = {}
        /\ \A node \in NamesAt(_tree, splitlines_keepends(_source), call.arg) :
               (\A scope \in EnclosingScopes(_tree, node) :
                    /\ BindingsIn(_tree, splitlines_keepends(_source), scope,
                                  _tree[node].name) = {}
                    /\ ~DefinedIn(_tree, scope, _tree[node].name))
               => call.result = {}

\* C10: documentation(), navigation() and nestable_lines() return a result
\* and never raise.
C10_OutlineQueriesTotal ==
    call.op \in {"documentation", "navigation", "nestable_lines"}
        => call.exc = "none"

\* The function and class definitions of the module body.
TopDefs(tree) ==
    {i \in 1..Len(tree) : tree[i].kind \in DefKinds /\ tree[i].parent = 1}

\* The function definitions directly in the body of a top-level class.
Methods(tree) ==
    {i \in 1..Len(tree) :
        /\ tree[i].kind = "FunctionDef"
        /\ tree[i].parent \in TopDefs(tree)
        /\ tree[tree[i].parent].kind = "ClassDef"}

DefType(tree, node) ==
    IF node \in Methods(tree) THEN "method"
    ELSE IF tree[node].kind = "ClassDef" THEN "class"
    ELSE "function"

EntriesOf(definitions, entry) ==
    {i \in 1..Len(definitions) : definitions[i] = entry}

\* C11: the definition list behind navigation() holds exactly one entry,
\* of kind function or class, for each definition at module top level, one
\* entry of kind method for each function definition directly in the body
\* of a top-level class, and no other entry.
C11_OnlyTopLevelAndMethods ==
    (call.op = "navigation" /\ call.exc = "none") =>
        /\ Len(DP_visit(_tree, _source, 1))
              = Cardinality(TopDefs(_tree) \cup Methods(_tree))
        /\ \A node \in TopDefs(_tree) \cup Methods(_tree) :
               Cardinality(EntriesOf(DP_visit(_tree, _source, 1),
                                     DP_visit_def(_tree, _source, node,
                                                  DefType(_tree, node)))) = 1

\* The number of definitions a node lies in.
RECURSIVE DefDepth(_, _)
DefDepth(tree, node) ==
    IF tree[node].parent = 0 THEN 0
    ELSE DefDepth(tree, tree[node].parent)
           + (IF tree[tree[node].parent].kind \in DefKinds THEN 1 ELSE 0)

RangeOf(tree, source, node) == DP_visit_def(tree, source, node, "").range

Contains(outer, inner) ==
    /\ outer[1] <= inner[1]
    /\ inner[1] + inner[2] <= outer[1] + outer[2]

Overlap(r1, r2) == r1[1] < r2[1] + r2[2] /\ r2[1] < r1[1] + r1[2]

AllDefs(tree) == {i \in 1..Len(tree) : tree[i].kind \in DefKinds}

\* C12: in the navigation() result the range of every method lies within
\* the range of the class whose body holds it, and the ranges of two
\* definitions nested equally deep do not overlap.
C12_RangesNestAndSeparate ==
    (call.op = "navigation" /\ call.exc = "none") =>
        /\ \A node \in AllDefs(_tree) :
               (/\ RangeOf(_tree, _source, node) \in DOMAIN call.result
                /\ call.result[RangeOf(_tree, _source, node)].type = "method")
               => /\ RangeOf(_tree, _source, _tree[node].parent)
                        \in DOMAIN call.result
                  /\ Contains(RangeOf(_tree, _source, _tree[node].parent),
                              RangeOf(_tree, _source, node))
        /\ \A d1 \in AllDefs(_tree) :
               \A d2 \in AllDefs(_tree) \ {d1} :
                   (/\ DefDepth(_tree, d1) = DefDepth(_tree, d2)
                    /\ RangeOf(_tree, _source, d1) \in DOMAIN call.result
                    /\ RangeOf(_tree, _source, d2) \in DOMAIN call.result)
                   => ~Overlap(RangeOf(_tree, _source, d1),
                               RangeOf(_tree, _source, d2))

\* A navigation() result with a class of several lines, two methods of it
\* and a function beside it.
C12_Witness ==
    /\ call.op = "navigation"
    /\ call.exc = "none"
    /\ \E cls \in DOMAIN call.result :
           /\ call.result[cls].type = "class"
           /\ cls[2] > 2
           /\ Cardinality({mt \in DOMAIN call.result :
                               /\ call.result[mt].type = "method"
                               /\ Contains(cls, mt)}) >= 2
           /\ \E fn \in DOMAIN call.result :
                  call.result[fn].type = "function" /\ ~Overlap(cls, fn)

\* C15: for every line L of the text and every column within line L,
\* column 0 included, the line _calculate_lineno gives for the index
\* _calculate_index(text, L, column) is L.
C15_LineOfIndexIsLine ==
    call.op = "_calculate_lineno" => call.result = call.arg.lineno

\* C16: when variable_indices(p) returned (q, n), the call
\* variable_indices(q) that follows returns the same set of pairs, also
\* when q is the position of a function or class name on its definition
\* line.
C16_SameFromEveryOccurrence ==
    [][(/\ call.op = "variable_indices"
        /\ call'.op = "variable_indices"
        /\ \E pair \in call.result : pair[1] = call'.arg)
       => call'.result = call.result]_vars

\* The compound statements that fold: definitions, conditionals, loops
\* and exception blocks.
FoldKinds ==
    {"FunctionDef", "ClassDef", "If", "For", "While", "TryExcept",
     "TryFinally"}

\* The highest line of a node and the nodes below it.
DescendantEnd(tree, node) ==
    SetMax({tree[i].lineno :
               i \in {j \in 1..Len(tree) :
                         j = node \/ Within(tree, j, node)}})

\* C13: nestable_lines() holds, for every function definition, class
\* definition, conditional, for-loop, while-loop and exception block of
\* the tree, the pair of its line and the highest line of its descendants,
\* and is the empty list when the tree has no such statement.
C13_EveryCompoundFolded ==
    call.op = "nestable_lines" =>
        /\ \A node \in 1..Len(_tree) :
               _tree[node].kind \in FoldKinds
               => /\ _tree[node].lineno <= DescendantEnd(_tree, node)
                  /\ \E i \in 1..Len(call.result) :
                         call.result[i] = <<_tree[node].lineno,
                                            DescendantEnd(_tree, node)>>
        /\ (\A node \in 1..Len(_tree) : _tree[node].kind \notin FoldKinds)
               => call.result = <<>>

\* The key modules() uses for an import statement: the module name, the
\* imported symbol for a from-import.
ModuleKey(tree, node) ==
    IF tree[node].kind = "ImportFrom" THEN tree[tree[node].children[1]].name
    ELSE module_name(tree, node)

\* C14: modules() returns an entry for every import statement of the tree
\* whose module is found as a source module, keyed by the module name (the
\* imported symbol for a from-import); it raises only when some imported
\* module is found by no strategy, and then raises the lookup failure.
C14_SourceModulesResolved ==
    call.op = "modules" =>
        /\ call.exc # "none"
               => /\ call.exc = "ImportError"
                  /\ \E name \in DOMAIN call.arg : call.arg[name] = "missing"
        /\ (\A name \in DOMAIN call.arg : call.arg[name] # "missing")
               => /\ call.exc = "none"
                  /\ \A node \in 1..Len(_tree) :
                         (/\ _tree[node].kind \in {"Import", "ImportFrom"}
                          /\ call.arg[module_name(_tree, node)] = "source")
                         => ModuleKey(_tree, node) \in DOMAIN call.result

\* The names stored by the targets of a scope on lines up to the cutoff.
TargetNames(tree, root, cutoff) ==
    {i \in 1..Len(tree) :
        /\ tree[i].kind = "Name"
        /\ tree[i].ctx = "Store"
        /\ EnclosingScope(tree, i) = root
        /\ tree[i].lineno <= cutoff}

\* C17: collecting a scope does not fail and binds, at its own position,
\* every name of every assignment, loop and comprehension target of the
\* scope up to the cutoff, whether the target is a single name or a tuple
\* or list of any depth.
C17_EveryTargetNameBound ==
    (call.op = "collect" /\ _tree[call.arg[1]].lineno <= call.arg[2]) =>
        /\ call.exc = "none"
        /\ \A node \in TargetNames(_tree, call.arg[1], call.arg[2]) :
               \E i \in 1..Len(call.result) :
                   call.result[i] = [name |-> _tree[node].name,
                                     lineno |-> _tree[node].lineno,
                                     col_offset |-> _tree[node].col_offset]

====
